---- MODULE Spec2Model ----
(***************************************************************************)
(* A model of the orbital dynamics engine of phoebe/dynamics/nbody.py:     *)
(*   - dynamics_from_bundle_rebound: the N-body run (backend checks, the   *)
(*     simulation set-up, the per-time loop, Euler output and the          *)
(*     light-travel-time correction particle_ltte),                        *)
(*   - keplerian_from_cartesian: state vector -> orbital elements,         *)
(*   - dynamics_from_bundle, dynamics_from_bundle_bs and dynamics_bs: the  *)
(*     Bulirsch-Stoer path through photodynam,                             *)
(* and of the MPI and Settings objects of phoebe/__init__.py with the      *)
(* module-level functions that drive them and the wait loop the worker     *)
(* ranks of an mpirun launch are placed in.  Each part has a specification *)
(* of its own (Spec, SpecKep, SpecBS, SpecMPI, SpecLoop, SpecSettings) in  *)
(* which the other parts are idle.                                         *)
(* Times, positions and velocities are integers: one tick of time, and     *)
(* positions in multiples of c_AU_d so that z / c is a whole number of     *)
(* ticks.  The integrator backend (rebound) is a deterministic flow that   *)
(* carries the particles of a simulation from sim.t to any requested time. *)
(***************************************************************************)
EXTENDS Integers, Sequences, FiniteSets, TLC

\* ---------------------------------------------------------------- bounds
\* number of stars of the hierarchy
NBodies == 2
\* longest sequence of requested times
MaxTimes == 2
\* keplerian_from_cartesian: positions in -KMaxPos..KMaxPos, velocities in
\* -KMaxVel..KMaxVel, mass_tot * G in 1..KMaxMu
KMaxPos == 2
KMaxVel == 1
KMaxMu == 2
\* keplerian_from_cartesian: the speed of the nearly circular orbits
KBig == 1000
\* dynamics_bs: hierarchies of 2..MaxObjects stars
MaxObjects == 3
\* step sizes a caller supplies: 1..MaxStepsize hundredths
MaxStepsize == 2
\* communicators of up to MaxProcs processes, processor counts 1..MaxProcs
MaxProcs == 3
\* broadcasts a process issues
MaxBcasts == 2
\* requested times are drawn from 0..MaxT
MaxT == 2
\* residual evaluations the root-finder makes after the seed before it gives up
NewtonMaxIter == 2
\* the root-finder's trial times lie within TrialSpan ticks of the seed
TrialSpan == 1

\* speed of light, in position units per tick (c.c.to(u.AU/u.d).value)
c_AU_d == 4

\* the circularity tolerance 1e-6 of keplerian_from_cartesian, inverted
CircTolInv == 1000000

\* stepsize = 0.01, in hundredths
DefaultStepsize == 1

\* _env_variable_int("PHOEBE_MPI_NPROCS", 4)
DefaultNprocs == 4

Bodies == 0..(NBodies - 1)

\* the reference epoch t0 of the system: zero, or not
RefEpochs == {0, 1}

VARIABLES
    times_arg,          \* the caller's `times` argument
    t0,                 \* b.get_value('t0', context='system')
    ltte, gr, return_roche_euler,   \* compute options
    can_rebound, can_reboundx,      \* _can_rebound, _can_reboundx
    kep0,               \* keplerian.dynamics_from_bundle(b, [t0]): state at t0
    pc,                 \* position in dynamics_from_bundle_rebound
    times,              \* the local `times`
    sim,                \* the rebound.Simulation
    sibling_Ns,         \* per body, the indices of its sibling's stars
    i, j,               \* loop indices
    outs,               \* xs, ys, zs, vxs, vys, vzs: outs[j][i] is one entry of each
    eul,                \* ds, Fs, ethetas, ...: eul[j][i]
    nt_p, nt_q, nt_iter,\* newton: last trial time, its residual, evaluations made
    result,             \* what the call returned
    error,              \* the exception that left the call
    integrated,         \* history: sim.integrate has been called
    nwrites,            \* history: how often outs[j][i] was assigned
    t_em,               \* history: t_barycenter found for [j][i]
    kc_pc,              \* position in a call of keplerian_from_cartesian
    kc_in,              \* its arguments: positions, velocities, mass_tot * G
    kc_out,             \* what it returned
    bs_pc,              \* the function a call through the Bulirsch-Stoer path is in
    bs_call,            \* the caller's arguments and compute options
    bs_args,            \* the arguments dynamics_bs was called with
    bs_dyn,             \* the arguments photodynam.do_dynamics was called with
    bs_out,             \* what the call returned
    proc,               \* the process phoebe was imported in (phoebe/__init__.py)
    mpi,                \* the module's MPI object
    conf,               \* the module's Settings object
    bcasts,             \* the packets this process has broadcast, in order
    hist,               \* history: the last call and the state it was made in
    ranks               \* where every rank of the mpirun launch stands, when proc is its rank 0

vars == <<times_arg, t0, ltte, gr, return_roche_euler, can_rebound, can_reboundx,
          kep0, pc, times, sim, sibling_Ns, i, j, outs, eul, nt_p, nt_q, nt_iter,
          result, error, integrated, nwrites, t_em, kc_pc, kc_in, kc_out,
          bs_pc, bs_call, bs_args, bs_dyn, bs_out, proc, mpi, conf, bcasts, hist,
          ranks>>

\* the variables of a call through dynamics_from_bundle_bs / dynamics_bs
bsvars == <<bs_pc, bs_call, bs_args, bs_dyn, bs_out>>

\* the variables of the MPI and Settings objects of phoebe/__init__.py
avars == <<proc, mpi, conf, bcasts, hist, ranks>>

\* the variables the N-body run and keplerian_from_cartesian leave alone
ovars == <<bsvars, avars>>

\* the variables of the call of keplerian_from_cartesian
kvars == <<kc_pc, kc_in, kc_out>>

inputs == <<times_arg, t0, ltte, gr, return_roche_euler, can_rebound, can_reboundx,
            kep0>>

\* ------------------------------------------------------------- helpers
SeqsUpTo(S, n) == UNION {[1..k -> S] : k \in 0..n}

Idx(ts) == 0..(Len(ts) - 1)

\* times[i] of the source (0-based)
At(ts, k) == ts[k + 1]

StrictlyIncreasing(ts) == \A k \in 1..(Len(ts) - 1) : ts[k] < ts[k + 1]

\* ------------------------------------------------- particles and the flow
\* mass of star k (b.get_value('mass', component=starref) * G)
Mass(k) == IF k = 0 THEN 3 ELSE 1

\* The state of star k at t0 as keplerian.dynamics_from_bundle gives it: side
\* selects a face-on system (0: every z is 0) or one seen edge-on (1: the stars
\* lie on either side of the barycentre along the line of sight).
KeplerianAtT0(side) ==
    [k \in Bodies |->
        [m  |-> Mass(k),
         x  |-> c_AU_d * (k + 1),
         y  |-> 0,
         z  |-> IF k % 2 = 0 THEN side * c_AU_d ELSE -(side * c_AU_d),
         vx |-> c_AU_d * (k + 1),
         vy |-> -(c_AU_d * (k + 2)),
         vz |-> 0]]

InitialStates == {KeplerianAtT0(side) : side \in 0..1}

NoSim == [created |-> FALSE]

\* rebound.Simulation(), with integrator, dt and the optional reboundx gr_full
NewSimulation(with_gr) ==
    [created |-> TRUE, t |-> 0, particles |-> <<>>, gr_full |-> with_gr]

SimN(s) == Cardinality(DOMAIN s.particles)

\* sim.add(m=..., x=..., ...): the new particle gets index sim.N
SimAdd(s, p) ==
    [s EXCEPT !.particles =
        [k \in 0..SimN(s) |-> IF k < SimN(s) THEN s.particles[k] ELSE p]]

Drift(p, dt) ==
    [p EXCEPT !.x = p.x + p.vx * dt, !.y = p.y + p.vy * dt, !.z = p.z + p.vz * dt]

\* mutant: the integration does not finish at the requested time but a tick later
Integrate_inexact(s, t) ==
    [s EXCEPT !.t = t + 1,
              !.particles = [k \in DOMAIN s.particles |->
                                Drift(s.particles[k], t + 1 - s.t)]]

\* sim.integrate(t, exact_finish_time=True): the simulation at exactly t
Integrate(s, t) ==
    [s EXCEPT !.t = t,
              !.particles = [k \in DOMAIN s.particles |-> Drift(s.particles[k], t - s.t)]]

\* ---------------------------------------------------- hierarchy and Euler
\* hier.get_stars_of_sibling_of(starref), as indices into starrefs: stars 0 and 1
\* form the inner binary, and every further star orbits all the stars before it
SiblingStars(k) == IF k = 0 THEN {1} \cap Bodies
                   ELSE IF k = 1 THEN {0}
                   ELSE 0..(k - 1)

RECURSIVE SumOver(_, _)
\* sum([f[k] for k in S])
SumOver(S, f) ==
    IF S = {} THEN 0
    ELSE LET k == CHOOSE n \in S : TRUE IN f[k] + SumOver(S \ {k}, f)

\* com_phantom_particle([sim.particles[k] for k in Ns])
com_phantom_particle(ps, Ns) ==
    LET m == SumOver(Ns, [k \in Ns |-> ps[k].m])
        mean(w) == SumOver(Ns, [k \in Ns |-> ps[k].m * w[k]]) \div m
    IN  [m  |-> m,
         x  |-> mean([k \in Ns |-> ps[k].x]),
         y  |-> mean([k \in Ns |-> ps[k].y]),
         z  |-> mean([k \in Ns |-> ps[k].z]),
         vx |-> mean([k \in Ns |-> ps[k].vx]),
         vy |-> mean([k \in Ns |-> ps[k].vy]),
         vz |-> mean([k \in Ns |-> ps[k].vz])]

\* particle.calculate_orbit(primary=com_particle): the two-body problem rebound
\* solves, which is the particle's state relative to the primary and their masses
calculate_orbit(p, primary) ==
    [mu |-> p.m + primary.m,
     x  |-> p.x - primary.x,   y  |-> p.y - primary.y,   z  |-> p.z - primary.z,
     vx |-> p.vx - primary.vx, vy |-> p.vy - primary.vy, vz |-> p.vz - primary.vz]

\* mutant: the particle itself is counted into the barycentre
\* (com_phantom_particle([particle]+sibling_particles))
calculate_euler_with_self(s, sibs, jj) ==
    calculate_orbit(s.particles[jj],
                    com_phantom_particle(s.particles, sibs[jj] \cup {jj}))

\* calculate_euler(sim, j): every value it returns is read off this orbit
calculate_euler(s, sibs, jj) ==
    calculate_orbit(s.particles[jj], com_phantom_particle(s.particles, sibs[jj]))

ZeroOrbit == [mu |-> 0, x |-> 0, y |-> 0, z |-> 0, vx |-> 0, vy |-> 0, vz |-> 0]

\* ---------------------------------------------------------- the outputs
ZeroState == [x |-> 0, y |-> 0, z |-> 0, vx |-> 0, vy |-> 0, vz |-> 0]

\* [np.zeros(times.shape) for j in range(sim.N)], for each of the six series
ZeroSeries(s, ts) == [jj \in 0..(SimN(s) - 1) |-> [k \in Idx(ts) |-> ZeroState]]
ZeroEulers(s, ts) == [jj \in 0..(SimN(s) - 1) |-> [k \in Idx(ts) |-> ZeroOrbit]]

\* what is read off the particle for xs[j][i], ..., vzs[j][i]
StateOf(p) == [x |-> p.x, y |-> p.y, z |-> p.z, vx |-> p.vx, vy |-> p.vy, vz |-> p.vz]

\* mutant: every entry is stored at time index 0
StoreParticle_first(o, jj, ii, p) == [o EXCEPT ![jj][0] = StateOf(p)]

\* xs[j][i] = particle.x; ...; vzs[j][i] = particle.vz
StoreParticle(o, jj, ii, p) == [o EXCEPT ![jj][ii] = StateOf(p)]

xs  == [jj \in DOMAIN outs |-> [k \in DOMAIN outs[jj] |-> outs[jj][k].x]]
ys  == [jj \in DOMAIN outs |-> [k \in DOMAIN outs[jj] |-> outs[jj][k].y]]
zs  == [jj \in DOMAIN outs |-> [k \in DOMAIN outs[jj] |-> outs[jj][k].z]]
vxs == [jj \in DOMAIN outs |-> [k \in DOMAIN outs[jj] |-> outs[jj][k].vx]]
vys == [jj \in DOMAIN outs |-> [k \in DOMAIN outs[jj] |-> outs[jj][k].vy]]
vzs == [jj \in DOMAIN outs |-> [k \in DOMAIN outs[jj] |-> outs[jj][k].vz]]

NoResult == [returned |-> FALSE]

\* ------------------------------------------------- light travel time
\* mutant: the residual reads the simulation wherever it stands
ResidualSim_stale(s, t) == s

\* residual(t) of particle_ltte: the simulation it leaves behind ...
ResidualSim(s, t) == IF s.t # t THEN Integrate(s, t) ELSE s

\* mutant: the light travel time is added instead of subtracted
Residual_plus(s, particle_N, t_obs, t) ==
    LET ltte_dt      == ResidualSim(s, t).particles[particle_N].z \div c_AU_d
        t_barycenter == t + ltte_dt
    IN  t_barycenter - t_obs

\* ... and the value it returns
Residual(s, particle_N, t_obs, t) ==
    LET ltte_dt      == ResidualSim(s, t).particles[particle_N].z \div c_AU_d
        t_barycenter == t - ltte_dt
    IN  t_barycenter - t_obs

\* the times at which newton may evaluate the residual when seeded at t_obs
Trials(t_obs) == (t_obs - TrialSpan)..(t_obs + TrialSpan)

\* the tail of particle_ltte: the simulation at t_barycenter
LtteAdvance(s, t_barycenter) ==
    IF s.t # t_barycenter THEN Integrate(s, t_barycenter) ELSE s

\* ------------------------------------------------------------ the run
\* mutant: gr without reboundx is let through
BackendError_nogr(cr, crx, g) ==
    IF ~cr THEN "ImportError: rebound 3.4+ is not installed" ELSE "none"

\* the availability checks at the head of dynamics_from_bundle_rebound
BackendError(cr, crx, g) ==
    IF ~cr THEN "ImportError: rebound 3.4+ is not installed"
    ELSE IF g /\ ~crx THEN "ImportError: reboundx is not installed"
    ELSE "none"

NoRoots(s, ts) == [jj \in 0..(SimN(s) - 1) |-> [k \in Idx(ts) |-> {}]]
NoWrites(s, ts) == [jj \in 0..(SimN(s) - 1) |-> [k \in Idx(ts) |-> 0]]

\* no call of keplerian_from_cartesian is in progress
KIdle ==
    /\ kc_pc = "idle"
    /\ kc_in = [r_v |-> <<1, 0, 0>>, v_v |-> <<0, 0, 0>>, mu |-> 1, t0 |-> 0]
    /\ kc_out = [returned |-> FALSE]

\* a value the caller may or may not supply
NotSupplied == [given |-> FALSE]

Supplied(v) == [given |-> TRUE, value |-> v]

NoCall == [entry |-> "none"]

NoArgs == [called |-> FALSE]

\* no call through the Bulirsch-Stoer path is in progress
BIdle ==
    /\ bs_pc = "idle"
    /\ bs_call = NoCall
    /\ bs_args = NoArgs
    /\ bs_dyn = NoArgs
    /\ bs_out = NoResult

NotImported == [imported |-> FALSE]

\* phoebe/__init__.py is not under study
AIdle ==
    /\ proc = NotImported
    /\ mpi = NotImported
    /\ conf = NotImported
    /\ bcasts = <<>>
    /\ hist = NotImported
    /\ ranks = <<>>

\* nothing but the N-body run and keplerian_from_cartesian is in progress
OIdle == BIdle /\ AIdle

Init ==
    /\ KIdle
    /\ OIdle
    /\ times_arg \in SeqsUpTo(0..MaxT, MaxTimes)
    /\ t0 \in RefEpochs
    /\ ltte \in BOOLEAN
    /\ gr \in BOOLEAN
    /\ return_roche_euler \in BOOLEAN
    /\ can_rebound \in BOOLEAN
    /\ can_reboundx \in BOOLEAN
    /\ can_reboundx => can_rebound
    /\ kep0 \in InitialStates
    /\ pc = "start"
    /\ times = times_arg
    /\ sim = NoSim
    /\ sibling_Ns = <<>>
    /\ i = 0
    /\ j = 0
    /\ outs = <<>>
    /\ eul = <<>>
    /\ nt_p = 0
    /\ nt_q = 0
    /\ nt_iter = 0
    /\ result = NoResult
    /\ error = "none"
    /\ integrated = FALSE
    /\ nwrites = <<>>
    /\ t_em = <<>>

\* if not _can_rebound: raise ...; if gr and not _can_reboundx: raise ...
CheckBackend ==
    /\ pc = "start"
    /\ LET e == BackendError(can_rebound, can_reboundx, gr) IN
        IF e # "none"
        THEN /\ pc' = "raised"
             /\ error' = e
        ELSE /\ pc' = "create"
             /\ error' = error
    /\ UNCHANGED <<inputs, kvars, ovars, times, sim, sibling_Ns, i, j, outs, eul, nt_p, nt_q,
                   nt_iter, result, integrated, nwrites, t_em>>

\* times = np.asarray(times) - t0; sim = rebound.Simulation(); gr; integrator; dt
CreateSim ==
    /\ pc = "create"
    /\ times' = [k \in DOMAIN times |-> times[k] - t0]
    /\ sim' = NewSimulation(gr)
    /\ sibling_Ns' = <<>>
    /\ i' = 0
    /\ pc' = "add"
    /\ UNCHANGED <<inputs, kvars, ovars, j, outs, eul, nt_p, nt_q, nt_iter, result, error,
                   integrated, nwrites, t_em>>

\* for i, starref in enumerate(starrefs): sim.add(...); sibling_Ns.append(...)
AddBody ==
    /\ pc = "add"
    /\ i < NBodies
    /\ sim' = SimAdd(sim, kep0[i])
    /\ sibling_Ns' = [k \in 0..i |-> IF k < i THEN sibling_Ns[k] ELSE SiblingStars(i)]
    /\ i' = i + 1
    /\ UNCHANGED <<inputs, kvars, ovars, pc, times, j, outs, eul, nt_p, nt_q, nt_iter, result,
                   error, integrated, nwrites, t_em>>

\* xs = [np.zeros(times.shape) for j in range(sim.N)]; ...; if return_roche_euler: ...
AllocOutputs ==
    /\ pc = "add"
    /\ i = NBodies
    /\ outs' = ZeroSeries(sim, times)
    /\ eul' = IF return_roche_euler THEN ZeroEulers(sim, times) ELSE <<>>
    /\ nwrites' = NoWrites(sim, times)
    /\ t_em' = NoRoots(sim, times)
    /\ i' = 0
    /\ pc' = "loop"
    /\ UNCHANGED <<inputs, kvars, ovars, times, sim, sibling_Ns, j, nt_p, nt_q, nt_iter, result,
                   error, integrated>>

\* for i, time in enumerate(times): sim.integrate(time, exact_finish_time=True)
IntegrateToTime ==
    /\ pc = "loop"
    /\ i < Len(times)
    /\ sim' = Integrate(sim, At(times, i))
    /\ integrated' = TRUE
    /\ j' = 0
    /\ pc' = "euler"
    /\ UNCHANGED <<inputs, kvars, ovars, times, sibling_Ns, i, outs, eul, nt_p, nt_q, nt_iter,
                   result, error, nwrites, t_em>>

\* for j in range(sim.N): if return_roche_euler: ... = calculate_euler(sim, j)
EulerStep ==
    /\ pc = "euler"
    /\ eul' = IF return_roche_euler
              THEN [eul EXCEPT ![j][i] = calculate_euler(sim, sibling_Ns, j)]
              ELSE eul
    /\ pc' = "particle"
    /\ UNCHANGED <<inputs, kvars, ovars, times, sim, sibling_Ns, i, j, outs, nt_p, nt_q, nt_iter,
                   result, error, integrated, nwrites, t_em>>

\* the end of the body of `for j in range(sim.N)`: the next body, or the next time
NextPc(jj) == IF jj + 1 < SimN(sim) THEN "euler" ELSE "loop"
NextJ(jj) == IF jj + 1 < SimN(sim) THEN jj + 1 ELSE jj
NextI(jj, ii) == IF jj + 1 < SimN(sim) THEN ii ELSE ii + 1

\* else: particle = sim.particles[j]; xs[j][i] = particle.x; ...
StoreDirect ==
    /\ pc = "particle"
    /\ ~ltte
    /\ outs' = StoreParticle(outs, j, i, sim.particles[j])
    /\ nwrites' = [nwrites EXCEPT ![j][i] = @ + 1]
    /\ pc' = NextPc(j)
    /\ j' = NextJ(j)
    /\ i' = NextI(j, i)
    /\ UNCHANGED <<inputs, kvars, ovars, times, sim, sibling_Ns, eul, nt_p, nt_q, nt_iter, result,
                   error, integrated, t_em>>

\* if ltte: particle_ltte(sim, j, time): newton(residual, t_obs) evaluates the
\* residual at its seed x0 = t_obs
LtteSeed ==
    /\ pc = "particle"
    /\ ltte
    /\ LET t_obs == At(times, i) IN
        /\ nt_p' = t_obs
        /\ nt_q' = Residual(sim, j, t_obs, t_obs)
        /\ sim' = ResidualSim(sim, t_obs)
    /\ nt_iter' = 0
    /\ integrated' = TRUE
    /\ pc' = "newton"
    /\ UNCHANGED <<inputs, kvars, ovars, times, sibling_Ns, i, j, outs, eul, result, error, nwrites,
                   t_em>>

\* newton has not converged and evaluates the residual at its next iterate
NewtonTrial ==
    /\ pc = "newton"
    /\ nt_q # 0
    /\ nt_iter < NewtonMaxIter
    /\ \E t \in Trials(At(times, i)) :
        /\ t # nt_p
        /\ nt_p' = t
        /\ nt_q' = Residual(sim, j, At(times, i), t)
        /\ sim' = ResidualSim(sim, t)
    /\ nt_iter' = nt_iter + 1
    /\ integrated' = TRUE
    /\ UNCHANGED <<inputs, kvars, ovars, pc, times, sibling_Ns, i, j, outs, eul, result, error,
                   nwrites, t_em>>

\* newton returns its root: t_barycenter = newton(...); if sim.t != t_barycenter:
\* sim.integrate(t_barycenter); return sim.particles[particle_N]; then the entry
\* [j][i] of every series is stored
NewtonConverged ==
    /\ pc = "newton"
    /\ nt_q = 0
    /\ LET t_barycenter == nt_p IN
        /\ sim' = LtteAdvance(sim, t_barycenter)
        /\ outs' = StoreParticle(outs, j, i, LtteAdvance(sim, t_barycenter).particles[j])
        /\ t_em' = [t_em EXCEPT ![j][i] = {t_barycenter}]
    /\ nwrites' = [nwrites EXCEPT ![j][i] = @ + 1]
    /\ pc' = NextPc(j)
    /\ j' = NextJ(j)
    /\ i' = NextI(j, i)
    /\ UNCHANGED <<inputs, kvars, ovars, times, sibling_Ns, eul, nt_p, nt_q, nt_iter, result, error,
                   integrated>>

\* mutant: the failure of the root-find is caught and the last iterate is used
NewtonFail_swallow ==
    /\ pc = "newton"
    /\ nt_q # 0
    /\ nt_iter = NewtonMaxIter
    /\ sim' = LtteAdvance(sim, nt_p)
    /\ outs' = StoreParticle(outs, j, i, LtteAdvance(sim, nt_p).particles[j])
    /\ t_em' = [t_em EXCEPT ![j][i] = {nt_p}]
    /\ nwrites' = [nwrites EXCEPT ![j][i] = @ + 1]
    /\ pc' = NextPc(j)
    /\ j' = NextJ(j)
    /\ i' = NextI(j, i)
    /\ UNCHANGED <<inputs, kvars, ovars, times, sibling_Ns, eul, nt_p, nt_q, nt_iter, result,
                   error, integrated>>

\* newton runs out of iterations and raises; nothing between newton and the
\* caller of dynamics_from_bundle_rebound catches the exception
NewtonFail ==
    /\ pc = "newton"
    /\ nt_q # 0
    /\ nt_iter = NewtonMaxIter
    /\ pc' = "raised"
    /\ error' = "RuntimeError: Failed to converge"
    /\ UNCHANGED <<inputs, kvars, ovars, times, sim, sibling_Ns, i, j, outs, eul, nt_p, nt_q,
                   nt_iter, result, integrated, nwrites, t_em>>

\* return times, xs, ys, zs, vxs, vys, vzs[, ds, Fs, ...]
Return ==
    /\ pc = "loop"
    /\ i = Len(times)
    /\ result' = [returned |-> TRUE, times |-> times, xs |-> xs, ys |-> ys, zs |-> zs,
                  vxs |-> vxs, vys |-> vys, vzs |-> vzs, euler |-> eul]
    /\ pc' = "done"
    /\ UNCHANGED <<inputs, kvars, ovars, times, sim, sibling_Ns, i, j, outs, eul, nt_p, nt_q,
                   nt_iter, error, integrated, nwrites, t_em>>

Next ==
    \/ CheckBackend
    \/ CreateSim
    \/ AddBody
    \/ AllocOutputs
    \/ IntegrateToTime
    \/ EulerStep
    \/ StoreDirect
    \/ LtteSeed
    \/ NewtonTrial
    \/ NewtonConverged
    \/ NewtonFail
    \/ Return

Spec == Init /\ [][Next]_vars

\* ------------------------------------------- keplerian_from_cartesian
Dot(a, b) == a[1] * b[1] + a[2] * b[2] + a[3] * b[3]

Cross(a, b) == <<a[2] * b[3] - a[3] * b[2],
                 a[3] * b[1] - a[1] * b[3],
                 a[1] * b[2] - a[2] * b[1]>>

\* the vectors of the grid whose length is a whole number
HasNorm(a) == \E k \in 0..(2 * KMaxPos) : k * k = Dot(a, a)

\* r = np.linalg.norm(r_v)
Norm(a) == CHOOSE k \in 0..(2 * KMaxPos) : k * k = Dot(a, a)

Grid(n) == {<<a, b, c>> : a \in (-n)..n, b \in (-n)..n, c \in (-n)..n}

KPositions == {p \in Grid(KMaxPos) : HasNorm(p) /\ Dot(p, p) > 0}

\* e_v = ((v ** 2 - mu / r) * r_v - np.dot(r_v, v_v) * v_v) / mu, times r * mu
EccVectorScaled(in) ==
    LET r  == Norm(in.r_v)
        v2 == Dot(in.v_v, in.v_v)
        rv == Dot(in.r_v, in.v_v)
    IN  [k \in 1..3 |-> (v2 * r - in.mu) * in.r_v[k] - r * rv * in.v_v[k]]

\* e = np.linalg.norm(e_v): the number sqrt(wsq) / rmu
Ecc(in) ==
    LET w == EccVectorScaled(in)
        r == Norm(in.r_v)
    IN  [wsq |-> Dot(w, w), rmu |-> r * in.mu]

\* mutant: an eccentricity of exactly 1 is let through
EccTooLarge_strict(e2) == (e2.wsq - 1) \div e2.rmu >= e2.rmu

\* if e >= 1: wsq >= rmu * rmu, computed without the product
EccTooLarge(e2) == e2.wsq \div e2.rmu >= e2.rmu

\* e == 0.
EccIsZero(e2) == e2.wsq = 0

RECURSIVE SqrtFrom(_, _)
SqrtFrom(k, n) == IF (k + 1) * (k + 1) > n THEN k ELSE SqrtFrom(k + 1, n)

\* the whole part of the square root of n
ISqrt(n) == SqrtFrom(0, n)

\* the comparison e < 1 / inv can be made in whole numbers: sqrt(wsq) is whole,
\* or no multiple of 1 / inv lies between e and the next whole sqrt
EccComparable(e2, inv) ==
    LET s == ISqrt(e2.wsq)
    IN  \/ s * s = e2.wsq
        \/ s + 1 <= e2.rmu \div inv
        \/ s > (e2.rmu - 1) \div inv

\* e < 1 / inv, that is sqrt(wsq) * inv < rmu
EccBelow(e2, inv) ==
    LET s == ISqrt(e2.wsq)
    IN  IF s * s = e2.wsq
        THEN s <= (e2.rmu - 1) \div inv
        ELSE s + 1 <= e2.rmu \div inv

\* if e < 1e-6
EccCircular(e2) == EccBelow(e2, CircTolInv)

\* E = v**2 / 2 - mu / r; a = - mu / (2 * E), as a fraction
SemiMajorAxis(in) ==
    LET r  == Norm(in.r_v)
        v2 == Dot(in.v_v, in.v_v)
    IN  [num |-> in.mu * r, den |-> 2 * in.mu - v2 * r]

\* h_v = np.cross(r_v, v_v)
AngMom(in) == Cross(in.r_v, in.v_v)

\* n_v = np.cross(np.array([0, 0, 1]), h_v)
NodeVector(in) == Cross(<<0, 0, 1>>, AngMom(in))

\* Angles are kept as terms.  np.arccos(num / sqrt(den_sq)), then optionally
\* 2 * np.pi - angle (refl), then optionally + np.pi (pi).  A term with
\* den_sq = 0 is the nan that 0 / 0 gives.
Arccos(num, den_sq) == [num |-> num, den_sq |-> den_sq, refl |-> FALSE, pi |-> 0]

\* the literal 0 (= arccos(1))
ZeroAngle == Arccos(1, 1)

\* angle = 2 * np.pi - angle
Reflect(a) == [a EXCEPT !.refl = TRUE]

\* angle += np.pi
PlusPi(a) == [a EXCEPT !.pi = @ + 1]

IsNaN(a) == a.den_sq = 0

\* the angle is exactly 0: arccos of exactly 1, not reflected, nothing added
IsZeroAngle(a) ==
    /\ ~a.refl
    /\ a.pi = 0
    /\ a.num > 0
    /\ a.num * a.num = a.den_sq

\* sin(angle) = 0: the argument of the arccos is 1 or -1
SinIsZero(a) == a.den_sq > 0 /\ a.num * a.num = a.den_sq

\* incl = np.arccos(h_v[2] / h)
Inclination(in) == Arccos(AngMom(in)[3], Dot(AngMom(in), AngMom(in)))

\* if np.abs(incl) < 1e-12.  With whole-number h_v below 2^31 in length, an
\* inclination that is not 0 has a sine of at least 1 / h > 1e-12, so the test
\* holds exactly when h_v points along +z.
Planar(in) ==
    /\ AngMom(in)[1] = 0
    /\ AngMom(in)[2] = 0
    /\ AngMom(in)[3] > 0

\* np.arccos(n_v[0] / n), 2 * np.pi - long_an if n_v[1] < 0, and long_an += np.pi
LongAnFromNode(in) ==
    LET n_v == NodeVector(in)
        ang == Arccos(n_v[1], Dot(n_v, n_v))
    IN  PlusPi(IF n_v[2] < 0 THEN Reflect(ang) ELSE ang)

\* long_an = 0 for a planar orbit, else the angle of the node vector
LongAn(in) ==
    IF Planar(in) THEN ZeroAngle ELSE LongAnFromNode(in)

\* per0 as the inclination branches leave it: 0 if e == 0., else the angle of
\* e_v from the x axis (planar) or from the node vector
Per0Initial(in) ==
    LET w   == EccVectorScaled(in)
        n_v == NodeVector(in)
    IN  IF EccIsZero(Ecc(in)) THEN ZeroAngle
        ELSE IF Planar(in) THEN Arccos(w[1], Dot(w, w))
        ELSE Arccos(Dot(n_v, w), Dot(n_v, n_v) * Dot(w, w))

\* per0 as returned: the circular branch leaves it alone; otherwise
\* per0 = 2 * np.pi - per0 if e_v[2] < 0 and e > 0.
Per0(in) ==
    IF EccCircular(Ecc(in)) THEN Per0Initial(in)
    ELSE IF EccVectorScaled(in)[3] < 0 /\ ~EccIsZero(Ecc(in))
         THEN Reflect(Per0Initial(in))
    ELSE Per0Initial(in)

\* the circular branch for an orbit that is not planar: the angle of r_v from the
\* node vector, reflected if np.dot(n_v, v_v) > 0
TrueAnomFromNode(in) ==
    LET n_v == NodeVector(in)
        r   == Norm(in.r_v)
        ang == Arccos(Dot(n_v, in.r_v), Dot(n_v, n_v) * (r * r))
    IN  IF Dot(n_v, in.v_v) > 0 THEN Reflect(ang) ELSE ang

\* if e < 1e-6: planar, true_anom = np.arccos(r_v[0] / r), reflected if
\* v_v[0] > 0; otherwise from the node vector
TrueAnomCircular(in) ==
    LET r   == Norm(in.r_v)
        ang == Arccos(in.r_v[1], r * r)
    IN  IF Planar(in)
        THEN IF in.v_v[1] > 0 THEN Reflect(ang) ELSE ang
        ELSE TrueAnomFromNode(in)

\* else: true_anom = np.arccos(np.dot(e_v, r_v) / (e * r)), reflected if
\* np.dot(r_v, v_v) < 0
TrueAnomEccentric(in) ==
    LET w   == EccVectorScaled(in)
        r   == Norm(in.r_v)
        ang == Arccos(Dot(w, in.r_v), Dot(w, w) * (r * r))
    IN  IF Dot(in.r_v, in.v_v) < 0 THEN Reflect(ang) ELSE ang

TrueAnom(in) ==
    IF EccCircular(Ecc(in)) THEN TrueAnomCircular(in) ELSE TrueAnomEccentric(in)

\* period = ((4 * np.pi**2 * a**3) / (mass_tot * G)) ** 0.5, as a term
Period(in) == [a |-> SemiMajorAxis(in), mu |-> in.mu]

\* The eccentric anomaly that belongs to true anomaly nu at eccentricity e2:
\* tan(E / 2) = sqrt((1 - e) / (1 + e)) * tan(nu / 2).  It is nu itself when
\* e = 0 or sin(nu) = 0, and a different angle otherwise.
EccentricAnomaly(nu, e2) ==
    IF EccIsZero(e2) \/ SinIsZero(nu) THEN [of |-> "nu", nu |-> nu]
    ELSE [of |-> "E", nu |-> nu]

\* the term angle - e * sin(angle)
KeplerEquation(angle, e2) == [angle |-> angle, e |-> e2]

\* mean_anom = true_anom - e * np.sin(true_anom)
MeanAnom(in) == KeplerEquation([of |-> "nu", nu |-> TrueAnom(in)], Ecc(in))

\* the term t_ref - (M * P) / (2 * np.pi)
PerPass(t_ref, M, P) == [t_ref |-> t_ref, M |-> M, P |-> P]

\* t0_perpass = t0 - (mean_anom * period) / (2 * np.pi)
T0Perpass(in) == PerPass(in.t0, MeanAnom(in), Period(in))


NRunIdle ==
    /\ times_arg = <<>>
    /\ t0 = 0
    /\ ltte = FALSE
    /\ return_roche_euler = FALSE
    /\ kep0 = KeplerianAtT0(0)
    /\ pc = "idle"
    /\ times = <<>>
    /\ sim = NoSim
    /\ sibling_Ns = <<>>
    /\ i = 0
    /\ j = 0
    /\ outs = <<>>
    /\ eul = <<>>
    /\ nt_p = 0
    /\ nt_q = 0
    /\ nt_iter = 0
    /\ result = NoResult
    /\ error = "none"
    /\ integrated = FALSE
    /\ nwrites = <<>>
    /\ t_em = <<>>

\* ... and neither the gr option nor the rebound modules matter
NIdle ==
    /\ NRunIdle
    /\ gr = FALSE
    /\ can_rebound = FALSE
    /\ can_reboundx = FALSE

nvars == <<inputs, pc, times, sim, sibling_Ns, i, j, outs, eul, nt_p, nt_q, nt_iter,
           result, integrated, nwrites, t_em>>

\* the arguments of the call: the small grid, and orbits that are circular to
\* within a millionth (speed KBig at distance 1 with mass_tot * G one off
\* KBig * KBig)
Axes == {p \in Grid(1) : Dot(p, p) = 1}

KNearCircular ==
    {[r_v |-> p, v_v |-> <<KBig * q[1], KBig * q[2], KBig * q[3]>>,
      mu |-> KBig * KBig + d, t0 |-> t] :
        p \in Axes, q \in Axes, d \in (-1)..1, t \in RefEpochs}

KInputs ==
    {in \in [r_v : KPositions, v_v : Grid(KMaxVel), mu : 1..KMaxMu, t0 : RefEpochs]
              \cup {c \in KNearCircular : Dot(c.r_v, c.v_v) = 0} :
        EccComparable(Ecc(in), CircTolInv)}

InitKep ==
    /\ NIdle
    /\ OIdle
    /\ kc_pc = "call"
    /\ kc_in \in KInputs
    /\ kc_out = [returned |-> FALSE]

\* keplerian_from_cartesian(positions, velocities, mass_tot, t0)
KeplerianFromCartesian ==
    /\ kc_pc = "call"
    /\ IF EccTooLarge(Ecc(kc_in))
       THEN /\ kc_pc' = "raised"
            /\ error' = "NotImplementedError: ecc cannot be >= 1"
            /\ kc_out' = kc_out
       ELSE /\ kc_pc' = "returned"
            /\ error' = error
            /\ kc_out' = [returned   |-> TRUE,
                          a          |-> SemiMajorAxis(kc_in),
                          e          |-> Ecc(kc_in),
                          period     |-> Period(kc_in),
                          incl       |-> Inclination(kc_in),
                          per0       |-> Per0(kc_in),
                          long_an    |-> LongAn(kc_in),
                          true_anom  |-> TrueAnom(kc_in),
                          mean_anom  |-> MeanAnom(kc_in),
                          t0_perpass |-> T0Perpass(kc_in)]
    /\ UNCHANGED <<nvars, ovars, kc_in>>

NextKep == KeplerianFromCartesian

SpecKep == InitKep /\ [][NextKep]_vars

\* ----------------------------- dynamics_from_bundle_bs and dynamics_bs
\* Step sizes are whole multiples of 0.01.
\* the calls a caller can make: the entry point, the times, the number of stars
\* of the hierarchy, the stepsize (compute option or keyword), ltte and
\* return_roche_euler
BSCalls ==
    [entry              : {"dynamics_from_bundle", "dynamics_from_bundle_bs",
                           "dynamics_bs"},
     times              : SeqsUpTo(0..MaxT, MaxTimes),
     nobjects           : 2..MaxObjects,
     stepsize           : {NotSupplied} \cup {Supplied(s) : s \in 1..MaxStepsize},
     ltte               : BOOLEAN,
     return_roche_euler : BOOLEAN]

\* dynamics_bs(times, masses, ..., stepsize=0.01, orbiterror=1e-16, ltte=False,
\* return_roche_euler=False) called directly
DirectArgs(call) ==
    [called             |-> TRUE,
     times              |-> call.times,
     nobjects           |-> call.nobjects,
     stepsize           |-> IF call.stepsize.given THEN call.stepsize.value
                            ELSE DefaultStepsize,
     orbiterror         |-> "1e-16",
     ltte               |-> call.ltte,
     return_roche_euler |-> call.return_roche_euler]

\* dynamics_from_bundle_bs: stepsize = 0.01, orbiterror = 1e-16, ltte from the
\* compute options, everything else from the bundle
WrapperArgs(call) ==
    [called             |-> TRUE,
     times              |-> call.times,
     nobjects           |-> call.nobjects,
     stepsize           |-> DefaultStepsize,
     orbiterror         |-> "1e-16",
     ltte               |-> call.ltte,
     return_roche_euler |-> call.return_roche_euler]

\* d = photodynam.do_dynamics(...): d[q][ti][k] is named by its place
Photodynam(q, n_t, n) ==
    [ti \in 0..(n_t - 1) |-> [k \in 0..(n - 1) |-> [q |-> q, ti |-> ti, k |-> k]]]

\* -1 * d[q].T * au_to_solrad, or d[q].T * au_to_solrad
Transposed(q, n_t, n, negate) ==
    [oi \in 0..(n - 1) |->
        [ti \in 0..(n_t - 1) |-> [of |-> Photodynam(q, n_t, n)[ti][oi], neg |-> negate]]]

\* mutant: every star reads the elements of the innermost orbit
OrbitColumn_inner(oi) == 0

\* the index into the orbit columns used for star oi: oi if oi==0 else oi-1
OrbitColumn(oi) == IF oi = 0 THEN 0 ELSE oi - 1

\* [np.array([d[q][ti][oi if oi==0 else oi-1] for ti in range(ntimes)]) for oi ...]
InstElement(q, n_t, n) ==
    [oi \in 0..(n - 1) |->
        [ti \in 0..(n_t - 1) |-> Photodynam(q, n_t, n - 1)[ti][OrbitColumn(oi)]]]

\* mass_tots: np.sum(masses[:2 if oi==0 else oi+1])
MassTot(oi) ==
    LET upto == IF oi = 0 THEN 2 ELSE oi + 1
    IN  SumOver(0..(upto - 1), [k \in 0..(upto - 1) |-> Mass(k)])

PyNone == [none |-> TRUE]

\* [np.array([None for ti in range(ntimes)]) for oi in range(nobjects)]
NoneSeries(n_t, n) == [oi \in 0..(n - 1) |-> [ti \in 0..(n_t - 1) |-> PyNone]]

\* the tuple dynamics_bs returns
BSResult(args) ==
    LET n   == args.nobjects
        n_t == Len(args.times)
        el(q) == InstElement(q, n_t, n)
        each(f(_, _)) == [oi \in 0..(n - 1) |-> [ti \in 0..(n_t - 1) |-> f(oi, ti)]]
        period(oi, ti) == [sma |-> el("kepl_a")[oi][ti], mass_tot |-> MassTot(oi)]
        perpass(oi, ti) == [mean_anom |-> el("kepl_ma")[oi][ti],
                            period |-> period(oi, ti), t0 |-> 0]
        etheta(oi, ti) == [per0 |-> el("kepl_o")[oi][ti],
                           mean_anom |-> el("kepl_ma")[oi][ti]]
        elongan(oi, ti) == [kepl_ln |-> el("kepl_ln")[oi][ti],
                            long_an |-> OrbitColumn(oi)]
        eincl(oi, ti) == [kepl_in |-> el("kepl_in")[oi][ti],
                          incl |-> OrbitColumn(oi)]
        cartesian ==
            [returned |-> TRUE,
             ts  |-> args.times,
             xs  |-> Transposed("x", n_t, n, TRUE),
             ys  |-> Transposed("y", n_t, n, TRUE),
             zs  |-> Transposed("z", n_t, n, FALSE),
             vxs |-> Transposed("vx", n_t, n, TRUE),
             vys |-> Transposed("vy", n_t, n, TRUE),
             vzs |-> Transposed("vz", n_t, n, FALSE)]
    IN  IF args.return_roche_euler
        THEN cartesian @@
             [inst_ds           |-> NoneSeries(n_t, n),
              inst_Fs           |-> NoneSeries(n_t, n),
              inst_ethetas      |-> each(etheta),
              inst_elongans     |-> each(elongan),
              inst_eincls       |-> each(eincl),
              inst_periods      |-> each(period),
              inst_smas         |-> el("kepl_a"),
              inst_eccs         |-> el("kepl_e"),
              inst_per0s        |-> el("kepl_o"),
              inst_long_ans     |-> el("kepl_ln"),
              inst_incls        |-> el("kepl_in"),
              inst_t0_perpasses |-> each(perpass)]
        ELSE cartesian

\* A call through the Bulirsch-Stoer path.  For a call of dynamics_from_bundle
\* the gr option of the compute options and the availability of rebound and
\* reboundx are drawn freely; the other two entry points have no use for them.
InitBS ==
    /\ NRunIdle
    /\ KIdle
    /\ AIdle
    /\ bs_call \in BSCalls
    /\ gr \in BOOLEAN
    /\ can_rebound \in BOOLEAN
    /\ can_reboundx \in BOOLEAN
    /\ bs_call.entry # "dynamics_from_bundle" => (~gr /\ ~can_rebound /\ ~can_reboundx)
    /\ bs_pc = bs_call.entry
    /\ bs_args = IF bs_call.entry = "dynamics_bs" THEN DirectArgs(bs_call) ELSE NoArgs
    /\ bs_dyn = NoArgs
    /\ bs_out = NoResult

\* mutant: dynamics_from_bundle takes the rebound path
DynamicsFromBundle_rebound ==
    /\ bs_pc = "dynamics_from_bundle"
    /\ LET e == BackendError(can_rebound, can_reboundx, gr) IN
        /\ error' = e
        /\ bs_pc' = IF e # "none" THEN "raised" ELSE "dynamics_from_bundle_rebound"
    /\ UNCHANGED <<nvars, kvars, avars, bs_call, bs_args, bs_dyn, bs_out>>

\* dynamics_from_bundle(b, times, compute, return_roche_euler, **kwargs)
DynamicsFromBundle ==
    /\ bs_pc = "dynamics_from_bundle"
    /\ bs_pc' = "dynamics_from_bundle_bs"
    /\ UNCHANGED <<nvars, error, kvars, avars, bs_call, bs_args, bs_dyn, bs_out>>

\* dynamics_from_bundle_bs(b, times, compute, return_roche_euler, **kwargs)
DynamicsFromBundleBs ==
    /\ bs_pc = "dynamics_from_bundle_bs"
    /\ bs_args' = WrapperArgs(bs_call)
    /\ bs_pc' = "dynamics_bs"
    /\ UNCHANGED <<nvars, error, kvars, avars, bs_call, bs_dyn, bs_out>>

\* dynamics_bs(times, masses, smas, ..., stepsize, orbiterror, ltte,
\* return_roche_euler)
DynamicsBs ==
    /\ bs_pc = "dynamics_bs"
    /\ bs_dyn' = bs_args
    /\ bs_out' = BSResult(bs_args)
    /\ bs_pc' = "returned"
    /\ UNCHANGED <<nvars, error, kvars, avars, bs_call, bs_args>>

NextBS ==
    \/ DynamicsFromBundle
    \/ DynamicsFromBundleBs
    \/ DynamicsBs

SpecBS == InitBS /\ [][NextBS]_vars

\* --------------------------------- phoebe/__init__.py: MPI and Settings
\* os.getenv("PHOEBE_ENABLE_MPI"): not set, "TRUE", or anything else
EnvFlags == {"unset", "TRUE", "FALSE"}

\* _env_variable_bool(key, default)
env_variable_bool(value, default) ==
    IF value = "unset" THEN default ELSE value = "TRUE"

\* _env_variable_int(key, default)
env_variable_int(value, default) ==
    IF value.given THEN value.value ELSE default

\* The processes phoebe is imported in.  Started by mpirun: the communicator has
\* size >= 2 (a size of 1 raises ImportError) and the process a rank below it.
\* Otherwise there is no communicator.  script: __main__ has a __file__ and
\* python runs without -i.
Processes ==
    {p \in [within      : BOOLEAN,
            size        : 0..MaxProcs,
            rank        : 0..(MaxProcs - 1),
            script      : BOOLEAN,
            env_enable  : EnvFlags,
            env_nprocs  : {NotSupplied} \cup {Supplied(n) : n \in 1..MaxProcs}] :
        IF p.within
        THEN p.size >= 2 /\ p.rank < p.size /\ p.env_nprocs = NotSupplied
        ELSE p.size = 0 /\ p.rank = 0}

\* MPI.__init__
MPI_init(p) ==
    IF p.within
    THEN [within_mpirun |-> TRUE,
          myrank        |-> p.rank,
          nprocs        |-> p.size,
          enabled       |-> env_variable_bool(p.env_enable, TRUE)]
    ELSE [within_mpirun |-> FALSE,
          myrank        |-> 0,
          nprocs        |-> env_variable_int(p.env_nprocs, DefaultNprocs),
          enabled       |-> env_variable_bool(p.env_enable, FALSE)]

\* MPI.mode
MPI_mode(m) ==
    IF m.within_mpirun
    THEN IF m.enabled THEN "internal handling of mpi within mpirun"
         ELSE "external handling of mpi by the user within mpirun"
    ELSE IF m.enabled
         THEN "internal handling of mpi in spawned separate threads during run_compute"
         ELSE "serial mode"

\* mutant: the stored count is reported whether or not MPI is enabled
MPI_nprocs_stored(m) == m.nprocs

\* MPI.nprocs (the property)
MPI_nprocs(m) ==
    IF ~m.enabled /\ ~m.within_mpirun THEN 1 ELSE m.nprocs

\* mutant: the count is stored within mpirun too
MPI_set_nprocs_always(m, n) == [m EXCEPT !.nprocs = n]

\* MPI.nprocs (the setter)
MPI_set_nprocs(m, n) ==
    IF m.within_mpirun THEN m ELSE [m EXCEPT !.nprocs = n]

\* mutant: on() never refuses
MPI_on_raises_never(m) == FALSE

\* MPI.on raises ValueError("cannot enable mpi after disabling within mpirun.")
MPI_on_raises(m) == m.within_mpirun /\ ~m.enabled

\* mutant: nprocs is not taken over
MPI_on_ignoring(m, n) == [m EXCEPT !.enabled = TRUE]

\* MPI.on(nprocs), when it does not raise
MPI_on(m, n) ==
    LET m1 == [m EXCEPT !.enabled = TRUE]
    IN  IF n.given THEN MPI_set_nprocs(m1, n.value) ELSE m1

\* A packet is a dict.  A key the packet does not carry is NotSupplied, and
\* packet.get(key, False) is the field: NotSupplied stands for the default False.
Packet(cmd, backend) == [worker_command |-> cmd, backend |-> backend]

\* {'worker_command': 'release'}
ReleasePacket == Packet(Supplied("release"), NotSupplied)

\* {'worker_command': 'shutdown'}
ShutdownPacket == Packet(Supplied("shutdown"), NotSupplied)

\* {'worker_command': 'logger', 'args': args, 'kwargs': kwargs}
LoggerPacket == Packet(Supplied("logger"), NotSupplied)

\* the packets MPI.off broadcasts
MPI_off_bcast(m) ==
    IF m.within_mpirun /\ m.myrank = 0 THEN <<ReleasePacket>> ELSE <<>>

\* MPI.off
MPI_off(m) == [m EXCEPT !.enabled = FALSE]

\* the packets MPI.shutdown_workers broadcasts
MPI_shutdown_bcast(m) ==
    IF m.within_mpirun /\ m.myrank = 0 THEN <<ShutdownPacket>> ELSE <<>>

\* MPI.shutdown_workers
MPI_shutdown_workers(m) ==
    IF m.within_mpirun /\ m.myrank = 0
    THEN [m EXCEPT !.enabled = FALSE, !.within_mpirun = FALSE]
    ELSE m

\* mutant: constraints are left off by default
Settings_init_off(p) ==
    [interactive_constraints |-> FALSE,
     interactive_checks      |-> ~p.script,
     devel                   |-> FALSE]

\* Settings.__init__
Settings_init(p) ==
    [interactive_constraints |-> TRUE,
     interactive_checks      |-> ~p.script,
     devel                   |-> FALSE]

\* Settings.interactive_checks_on
Settings_interactive_checks_on(c) == [c EXCEPT !.interactive_checks = TRUE]

\* mutant: turning the checks off turns the constraints off as well
Settings_interactive_checks_off_both(c) ==
    [c EXCEPT !.interactive_checks = FALSE, !.interactive_constraints = FALSE]

\* Settings.interactive_checks_off
Settings_interactive_checks_off(c) == [c EXCEPT !.interactive_checks = FALSE]

\* Settings.interactive_constraints_on
Settings_interactive_constraints_on(c) == [c EXCEPT !.interactive_constraints = TRUE]

\* Settings.interactive_constraints_off
Settings_interactive_constraints_off(c) == [c EXCEPT !.interactive_constraints = FALSE]

\* Settings.interactive_on
Settings_interactive_on(c) ==
    Settings_interactive_constraints_on(Settings_interactive_checks_on(c))

\* Settings.interactive_off
Settings_interactive_off(c) ==
    Settings_interactive_constraints_off(Settings_interactive_checks_off(c))

\* Settings.devel_on
Settings_devel_on(c) == [c EXCEPT !.devel = TRUE]

\* Settings.devel_off
Settings_devel_off(c) == [c EXCEPT !.devel = FALSE]

\* the nprocs argument of mpi_on: none, or a count
\* ------------------------------------------------------- the wait loop
\* the names hasattr(_backends, name) holds for: the backend classes
BackendAttrs == {"PhoebeBackend", "LegacyBackend"}

\* the packet a backend broadcasts to have its workers run a chunk of a model
BackendPacket(b) == Packet(NotSupplied, Supplied(b))

\* mutant: rank 0 is placed into the wait loop as well
EntersWaitLoop_any_rank(m) == m.within_mpirun /\ m.enabled

\* if mpi.within_mpirun and mpi.enabled and mpi.myrank != 0: while True: ...
EntersWaitLoop(m) == m.within_mpirun /\ m.enabled /\ m.myrank # 0

\* One pass of the body of the wait loop on a packet: what the worker does.
\* hasattr(_backends, False) raises TypeError (the attribute name must be a
\* string) before the else branch is reached.
WaitLoop(packet) ==
    IF packet.worker_command = Supplied("shutdown") THEN "exit"
    ELSE IF packet.worker_command = Supplied("release") THEN "break"
    ELSE IF packet.worker_command = Supplied("logger") THEN "logger"
    ELSE IF ~packet.backend.given THEN "TypeError"
    ELSE IF packet.backend.value \in BackendAttrs THEN "_run_worker"
    ELSE "ValueError"

\* a process right after `import phoebe`: in the wait loop, or on to its script
AfterImport(p) ==
    [pc      |-> IF EntersWaitLoop(MPI_init(p)) THEN "loop" ELSE "script",
     loggers |-> 0,
     ran     |-> 0,
     error   |-> "none",
     missed  |-> 0]

\* every rank of the launch whose rank 0 is the process p
Launch(p) ==
    IF p.within /\ p.rank = 0
    THEN [r \in 0..(p.size - 1) |-> AfterImport([p EXCEPT !.rank = r])]
    ELSE <<>>

\* A rank at the moment rank 0 broadcasts a packet: in the wait loop its
\* comm.bcast(None, root=0) receives the packet and the body of the loop runs;
\* anywhere else it makes no matching call and the packet passes it by.
Receive(w, packet) ==
    IF w.pc # "loop" THEN [w EXCEPT !.missed = @ + 1]
    ELSE LET does == WaitLoop(packet) IN
         IF does = "exit" THEN [w EXCEPT !.pc = "exited"]
         ELSE IF does = "break" THEN [w EXCEPT !.pc = "script"]
         ELSE IF does = "logger" THEN [w EXCEPT !.loggers = @ + 1]
         ELSE IF does = "_run_worker" THEN [w EXCEPT !.ran = @ + 1]
         ELSE [w EXCEPT !.pc = "raised", !.error = does]

RECURSIVE Deliver(_, _)
\* comm.bcast(packet, root=0) for every packet of sent, in order: the collective
\* is matched by the ranks other than the root
Deliver(rs, sent) ==
    IF sent = <<>> THEN rs
    ELSE Deliver([r \in DOMAIN rs |-> IF r = 0 THEN rs[r] ELSE Receive(rs[r], Head(sent))],
                 Tail(sent))

\* the packet logger() broadcasts
logger_bcast(m) ==
    IF m.within_mpirun /\ m.myrank = 0 THEN <<LoggerPacket>> ELSE <<>>

NprocsArgs == {NotSupplied} \cup {Supplied(n) : n \in 1..MaxProcs}

\* hist when nothing has been called since the import
NoHistory(m, c) ==
    [op              |-> "import",
     arg             |-> NotSupplied,
     raised          |-> FALSE,
     pre_mpi         |-> m,
     pre_conf        |-> c,
     pre_nb          |-> 0,
     off_since_n     |-> FALSE,
     last_n          |-> NotSupplied,
     off_since_reset |-> FALSE]

\* The Settings object from its construction on, in a process outside mpirun
\* with no environment variable set.
InitSettings ==
    /\ NIdle
    /\ KIdle
    /\ BIdle
    /\ proc \in {p \in Processes :
                    ~p.within /\ p.env_enable = "unset" /\ p.env_nprocs = NotSupplied}
    /\ mpi = MPI_init(proc)
    /\ conf = Settings_init(proc)
    /\ bcasts = <<>>
    /\ hist = NoHistory(mpi, conf)
    /\ ranks = Launch(proc)

\* The MPI object from its construction on, in a script; the settings are as
\* constructed or as the user changed them.
InitMPI ==
    /\ NIdle
    /\ KIdle
    /\ BIdle
    /\ proc \in {p \in Processes : p.script}
    /\ mpi = MPI_init(proc)
    /\ conf \in {Settings_init(proc),
                 Settings_devel_on(Settings_interactive_off(Settings_init(proc)))}
    /\ bcasts = <<>>
    /\ hist = NoHistory(mpi, conf)
    /\ ranks = Launch(proc)

\* One call of a function of the module: it leaves the MPI object as m2 and the
\* settings as c2 and broadcasts the packets sent.  hist records the call, the
\* state it was made in, the last processor count the caller passed, whether
\* mpi_off was called since, and whether interactive constraints were turned off
\* since the settings were last reset.
Call(name, arg, raised, m2, c2, sent) ==
    /\ Len(bcasts) + Len(sent) <= MaxBcasts
    /\ mpi' = m2
    /\ conf' = c2
    /\ bcasts' = bcasts \o sent
    /\ ranks' = Deliver(ranks, sent)
    /\ hist' = [op              |-> name,
                arg             |-> arg,
                raised          |-> raised,
                pre_mpi         |-> mpi,
                pre_conf        |-> conf,
                pre_nb          |-> Len(bcasts),
                off_since_n     |-> IF arg.given THEN FALSE
                                    ELSE IF name = "mpi_off" THEN TRUE
                                    ELSE hist.off_since_n,
                last_n          |-> IF arg.given THEN arg ELSE hist.last_n,
                off_since_reset |->
                    IF name = "reset_settings" THEN FALSE
                    ELSE IF name \in {"interactive_constraints_off", "interactive_off"}
                         THEN TRUE
                    ELSE hist.off_since_reset]
    /\ UNCHANGED <<nvars, error, kvars, bsvars, proc>>

\* mutant: the MPI object is built anew as well
reset_settings_mpi ==
    Call("reset_settings", NotSupplied, FALSE, MPI_init(proc), Settings_init(proc), <<>>)

\* reset_settings(): conf.reset(), which runs Settings.__init__ again
reset_settings ==
    Call("reset_settings", NotSupplied, FALSE, mpi, Settings_init(proc), <<>>)

interactive_on ==
    Call("interactive_on", NotSupplied, FALSE, mpi, Settings_interactive_on(conf), <<>>)

interactive_off ==
    Call("interactive_off", NotSupplied, FALSE, mpi, Settings_interactive_off(conf), <<>>)

interactive_constraints_on ==
    Call("interactive_constraints_on", NotSupplied, FALSE, mpi,
         Settings_interactive_constraints_on(conf), <<>>)

interactive_constraints_off ==
    Call("interactive_constraints_off", NotSupplied, FALSE, mpi,
         Settings_interactive_constraints_off(conf), <<>>)

interactive_checks_on ==
    Call("interactive_checks_on", NotSupplied, FALSE, mpi,
         Settings_interactive_checks_on(conf), <<>>)

interactive_checks_off ==
    Call("interactive_checks_off", NotSupplied, FALSE, mpi,
         Settings_interactive_checks_off(conf), <<>>)

devel_on == Call("devel_on", NotSupplied, FALSE, mpi, Settings_devel_on(conf), <<>>)

devel_off == Call("devel_off", NotSupplied, FALSE, mpi, Settings_devel_off(conf), <<>>)

\* mpi_on(nprocs=None): mpi.on(nprocs=nprocs)
mpi_on ==
    \E n \in NprocsArgs :
        IF MPI_on_raises(mpi)
        THEN Call("mpi_on", n, TRUE, mpi, conf, <<>>)
        ELSE Call("mpi_on", n, FALSE, MPI_on(mpi, n), conf, <<>>)

\* mpi_off(): mpi.off()
mpi_off ==
    Call("mpi_off", NotSupplied, FALSE, MPI_off(mpi), conf, MPI_off_bcast(mpi))

\* mpi.nprocs = n
set_nprocs ==
    \E n \in 1..MaxProcs :
        Call("set_nprocs", Supplied(n), FALSE, MPI_set_nprocs(mpi, n), conf, <<>>)

\* mpi.shutdown_workers(), called directly or as registered with atexit
shutdown_workers ==
    Call("shutdown_workers", NotSupplied, FALSE, MPI_shutdown_workers(mpi), conf,
         MPI_shutdown_bcast(mpi))

\* logger(*args, **kwargs)
logger ==
    Call("logger", NotSupplied, FALSE, mpi, conf, logger_bcast(mpi))

\* a backend on rank 0 hands a chunk of run_compute to the workers it holds:
\* mpi.comm.bcast(packet, root=0) with packet['backend'] its class name
run_compute ==
    /\ mpi.within_mpirun /\ mpi.enabled /\ mpi.myrank = 0
    /\ \E b \in BackendAttrs :
        Call("run_compute", NotSupplied, FALSE, mpi, conf, <<BackendPacket(b)>>)

NextSettings ==
    \/ reset_settings
    \/ interactive_on
    \/ interactive_off
    \/ interactive_constraints_on
    \/ interactive_constraints_off
    \/ interactive_checks_on
    \/ interactive_checks_off
    \/ devel_on
    \/ devel_off

SpecSettings == InitSettings /\ [][NextSettings]_vars

NextMPI ==
    \/ reset_settings
    \/ mpi_on
    \/ mpi_off
    \/ set_nprocs
    \/ shutdown_workers
    \/ logger
    \/ run_compute

SpecMPI == InitMPI /\ [][NextMPI]_vars

\* The packets a caller of mpi.comm.bcast may hand to the workers: with or
\* without a 'worker_command' (one of the three the loop knows, or another),
\* with or without a 'backend' (the name of a backend class, or another).
Packets ==
    {Packet(cmd, b) :
        cmd \in {NotSupplied} \cup
                {Supplied(x) : x \in {"shutdown", "release", "logger", "status"}},
        b \in {NotSupplied} \cup
              {Supplied(n) : n \in BackendAttrs \cup {"NoSuchBackend"}}}

\* The wait loop from the import on: rank 0 of a launch with MPI enabled, whose
\* workers are all in the loop.
InitLoop ==
    /\ NIdle
    /\ KIdle
    /\ BIdle
    /\ proc \in {p \in Processes :
                    p.within /\ p.rank = 0 /\ p.script /\ p.env_enable # "FALSE"}
    /\ mpi = MPI_init(proc)
    /\ conf = Settings_init(proc)
    /\ bcasts = <<>>
    /\ hist = NoHistory(mpi, conf)
    /\ ranks = Launch(proc)

\* mpi.comm.bcast(packet, root=0) on rank 0
comm_bcast ==
    \E packet \in Packets :
        Call("comm.bcast", NotSupplied, FALSE, mpi, conf, <<packet>>)

NextLoop == comm_bcast

SpecLoop == InitLoop /\ [][NextLoop]_vars

\* ============================================================== claims
\* The state of star k at simulation time t (t = 0 is the reference epoch): the
\* flow applied to the state keplerian gave at t0.
StateAtTime(k, t) == Drift(kep0[k], t)

ParticlesAtTime(t) == [k \in Bodies |-> StateAtTime(k, t)]

\* the Euler elements of star k at simulation time t
EulerAtTime(k, t) ==
    calculate_orbit(StateAtTime(k, t),
                    com_phantom_particle(ParticlesAtTime(t), SiblingStars(k)))

\* the series exist (the run is past their allocation)
Allocated == pc \in {"loop", "euler", "particle", "newton", "done", "raised"}
                /\ sim.created /\ DOMAIN nwrites = Bodies

Written(jj, ii) == nwrites[jj][ii] > 0

EulerWritten(jj, ii) == return_roche_euler /\ eul[jj][ii] # ZeroOrbit

BackendMissing == ~can_rebound \/ (gr /\ ~can_reboundx)

\* C1 (as claimed): whenever Roche/Euler output is requested, the Euler elements
\* stored at [j][i] are those of the integrator state at exactly times[i], for
\* every body j, also with ltte enabled and j > 0.
C1_EulerFromStateAtTime ==
    (Allocated /\ return_roche_euler) =>
        \A jj \in Bodies : \A ii \in Idx(times) :
            EulerWritten(jj, ii) => eul[jj][ii] = EulerAtTime(jj, At(times, ii))

\* C2 (as claimed): a light-travel-time correction leaves the shared simulation
\* as it was, so every body of time index i, and the step to the next time,
\* starts from the simulation at times[i].
C2_LtteLeavesSimulation ==
    (pc \in {"euler", "particle"}) =>
        /\ sim.t = At(times, i)
        /\ sim.particles = ParticlesAtTime(At(times, i))

\* C3 (as claimed): with times that are not strictly increasing the run fails
\* before any integration step: sim.integrate is never called and nothing is
\* returned.
C3_SequenceOrderError ==
    ~StrictlyIncreasing(times_arg) => (~integrated /\ ~result.returned)

\* C4: when rebound is missing, or gr is requested and reboundx is missing, the
\* run raises its ImportError at once: no simulation is ever created, no body
\* added, no integration step made, nothing returned; and a simulation that is
\* created with gr requested has the relativity term attached.
C4_FailFast ==
    /\ BackendMissing =>
        /\ pc \in {"start", "raised"}
        /\ ~sim.created
        /\ ~integrated
        /\ ~result.returned
        /\ pc = "raised" => error = BackendError(can_rebound, can_reboundx, gr)
        /\ pc = "raised" => error # "none"
    /\ (sim.created /\ gr) => (sim.gr_full /\ can_reboundx)

C4_Witness == pc = "raised" /\ can_rebound /\ gr /\ ~can_reboundx

\* C5: keplerian_from_cartesian raises whenever the eccentricity of the state is
\* >= 1 and then returns no tuple; every tuple it returns has 0 <= ecc < 1.
C5_EccBelowOne ==
    (kc_pc \in {"returned", "raised"}) =>
        /\ (ISqrt(Ecc(kc_in).wsq) >= Ecc(kc_in).rmu) =>
              (kc_pc = "raised" /\ ~kc_out.returned /\ error # "none")
        /\ kc_pc = "returned" =>
              /\ kc_out.returned
              /\ kc_out.e = Ecc(kc_in)
              /\ 0 <= kc_out.e.wsq
              /\ ISqrt(kc_out.e.wsq) < kc_out.e.rmu

\* a parabolic state (ecc exactly 1) is refused
C5_Witness ==
    /\ kc_pc = "raised"
    /\ ISqrt(Ecc(kc_in).wsq) = Ecc(kc_in).rmu
    /\ ISqrt(Ecc(kc_in).wsq) * ISqrt(Ecc(kc_in).wsq) = Ecc(kc_in).wsq

\* C6: with ltte the entry stored for body j at time index i is the body's
\* state at the root t_barycenter newton returned for it; without ltte it is
\* the body's state at exactly times[i].
C6_StoredState ==
    Allocated =>
        \A jj \in Bodies : \A ii \in Idx(times) :
            Written(jj, ii) =>
                IF ltte
                THEN /\ Cardinality(t_em[jj][ii]) = 1
                     /\ \A t \in t_em[jj][ii] : outs[jj][ii] = StateOf(StateAtTime(jj, t))
                ELSE /\ t_em[jj][ii] = {}
                     /\ outs[jj][ii] = StateOf(StateAtTime(jj, At(times, ii)))

\* an entry stored with ltte that is not the body's state at times[i]
C6_Witness ==
    /\ Allocated
    /\ ltte
    /\ \E jj \in Bodies : \E ii \in Idx(times) :
        /\ Written(jj, ii)
        /\ outs[jj][ii] # StateOf(StateAtTime(jj, At(times, ii)))
        /\ t_em[jj][ii] # {At(times, ii)}

\* C7 (as claimed): the emission time found satisfies t_em + z(t_em)/c = t_obs.
C7_EmissionTimePlus ==
    Allocated =>
        \A jj \in Bodies : \A ii \in Idx(times) : \A t \in t_em[jj][ii] :
            t * c_AU_d + StateAtTime(jj, t).z = At(times, ii) * c_AU_d

\* C7 (amended): the emission time found satisfies t_em - z(t_em)/c = t_obs,
\* z being the line-of-sight position of body j at simulation time t_em.
C7_EmissionTimeMinus ==
    Allocated =>
        \A jj \in Bodies : \A ii \in Idx(times) : \A t \in t_em[jj][ii] :
            t * c_AU_d - StateAtTime(jj, t).z = At(times, ii) * c_AU_d

\* an emission time found for a body off the plane of the sky
C7_Witness ==
    /\ Allocated
    /\ \E jj \in Bodies : \E ii \in Idx(times) : \E t \in t_em[jj][ii] :
        StateAtTime(jj, t).z # 0 /\ t # At(times, ii)

\* C8: when the root-find has used up its iterations without converging, the
\* next step of the run is the exception leaving it: the simulation is not
\* advanced to any root, nothing is stored, nothing is returned, and the run
\* does not go on after the exception.
C8_RootFindErrorPropagates ==
    /\ [][(pc = "newton" /\ nt_q # 0 /\ nt_iter = NewtonMaxIter) =>
            /\ pc' = "raised"
            /\ error' = "RuntimeError: Failed to converge"
            /\ sim' = sim
            /\ outs' = outs
            /\ nwrites' = nwrites
            /\ t_em' = t_em
            /\ ~result'.returned]_vars
    /\ [][pc = "raised" => pc' = "raised"]_vars
    /\ [](pc = "raised" => ~result.returned)
    /\ []((pc = "raised" /\ ltte /\ ~BackendMissing) =>
            (~Written(j, i) /\ t_em[j][i] = {} /\ outs[j][i] = ZeroState))

C8_Witness ==
    pc = "raised" /\ error = "RuntimeError: Failed to converge" /\ j > 0

\* C9: the run returns, for every body, six series of len(times) entries, each
\* entry [j][i] written exactly once, with body j's state for time index i.
C9_OneEntryPerBodyAndTime ==
    /\ Allocated =>
        \A jj \in Bodies : \A ii \in Idx(times) : nwrites[jj][ii] <= 1
    /\ pc = "done" =>
        /\ result.returned
        /\ \A series \in {result.xs, result.ys, result.zs,
                          result.vxs, result.vys, result.vzs} :
            /\ DOMAIN series = Bodies
            /\ \A jj \in Bodies : DOMAIN series[jj] = Idx(times_arg)
        /\ \A jj \in Bodies : \A ii \in Idx(times_arg) :
            LET t == IF ltte THEN CHOOSE u \in t_em[jj][ii] : TRUE ELSE At(times, ii)
                p == StateAtTime(jj, t)
            IN  /\ nwrites[jj][ii] = 1
                /\ result.xs[jj][ii] = p.x
                /\ result.ys[jj][ii] = p.y
                /\ result.zs[jj][ii] = p.z
                /\ result.vxs[jj][ii] = p.vx
                /\ result.vys[jj][ii] = p.vy
                /\ result.vzs[jj][ii] = p.vz

C9_Witness ==
    pc = "done" /\ Len(times_arg) >= 2 /\ ltte /\ kep0[0].z # 0

\* C10 (as claimed): the time array returned is the sequence of times the
\* caller supplied, for every reference epoch t0.
C10_ReturnsCallerTimes ==
    pc = "done" => result.times = times_arg

\* the angle of the position from the x axis, reflected for a positive x velocity
XAxisAnomaly(in) ==
    IF in.v_v[1] > 0
    THEN Reflect(Arccos(in.r_v[1], Dot(in.r_v, in.r_v)))
    ELSE Arccos(in.r_v[1], Dot(in.r_v, in.r_v))

\* C11 as stated: for a planar orbit (|incl| < 1e-12) long_an is exactly 0, and
\* when moreover e < 1e-6 (0 < e < 1e-6 included) per0 is exactly 0 and the true
\* anomaly is the angle of the position from the x axis, quadrant-corrected by
\* the sign of the x velocity.
C11_DegeneratePolicy ==
    (kc_pc = "returned" /\ Planar(kc_in)) =>
        /\ IsZeroAngle(kc_out.long_an)
        /\ EccCircular(kc_out.e) =>
              /\ IsZeroAngle(kc_out.per0)
              /\ kc_out.true_anom = XAxisAnomaly(kc_in)

\* C14: the mean anomaly is M = E_anom - e * sin(E_anom) with E_anom the
\* eccentric anomaly that belongs to the returned true anomaly (for e > 0 not the
\* true anomaly itself), and t0_perpass = t_ref - M * P / (2 * pi).
C14_MeanAnomalyViaEccentricAnomaly ==
    (kc_pc = "returned" /\ ~IsNaN(kc_out.true_anom)) =>
        /\ kc_out.mean_anom =
              KeplerEquation(EccentricAnomaly(kc_out.true_anom, kc_out.e), kc_out.e)
        /\ kc_out.t0_perpass = PerPass(kc_in.t0, kc_out.mean_anom, kc_out.period)

\* C12: with return_roche_euler, a call through dynamics_from_bundle,
\* dynamics_from_bundle_bs or dynamics_bs returns for every star and every time
\* a computed d and a computed F: none of the entries is left empty.
C12_RocheEulerComputed ==
    (bs_pc = "returned" /\ bs_dyn.return_roche_euler) =>
        \A oi \in 0..(bs_dyn.nobjects - 1) : \A ti \in Idx(bs_dyn.times) :
            /\ bs_out.inst_ds[oi][ti] # PyNone
            /\ bs_out.inst_Fs[oi][ti] # PyNone

\* C13: the step size photodynam is called with through the wrapper
\* dynamics_from_bundle_bs is the one the caller supplied, and 0.01 only when
\* the caller supplied none.
C13_CallerStepsizeUsed ==
    (bs_dyn.called /\ bs_call.entry # "dynamics_bs") =>
        bs_dyn.stepsize = IF bs_call.stepsize.given THEN bs_call.stepsize.value
                          ELSE DefaultStepsize

\* C15: reset_settings leaves mpi.enabled, mpi.nprocs, mpi.within_mpirun and
\* mpi.myrank as they were, in every reachable MPI state, and broadcasts
\* nothing.
C15_ResetLeavesMPI ==
    hist.op = "reset_settings" =>
        /\ mpi.enabled = hist.pre_mpi.enabled
        /\ MPI_nprocs(mpi) = MPI_nprocs(hist.pre_mpi)
        /\ mpi.within_mpirun = hist.pre_mpi.within_mpirun
        /\ mpi.myrank = hist.pre_mpi.myrank
        /\ Len(bcasts) = hist.pre_nb

\* reset_settings changed the settings of rank 0 within mpirun while the MPI
\* object was no longer as constructed
C15_Witness ==
    /\ hist.op = "reset_settings"
    /\ conf # hist.pre_conf
    /\ mpi # MPI_init(proc)
    /\ mpi.within_mpirun
    /\ mpi.myrank = 0

\* C16: right after reset_settings interactive constraints are on and developer
\* mode is off, whatever was called before; and as long as neither
\* interactive_constraints_off nor interactive_off was called since the last
\* reset (or the import), interactive constraints are on.
C16_ConstraintsOnSinceReset ==
    /\ hist.op = "reset_settings" =>
          (conf.interactive_constraints /\ ~conf.devel)
    /\ ~hist.off_since_reset => conf.interactive_constraints

\* reset_settings was called with constraints off and developer mode on
C16_Witness ==
    /\ hist.op = "reset_settings"
    /\ ~hist.pre_conf.interactive_constraints
    /\ hist.pre_conf.devel
    /\ conf.interactive_constraints
    /\ ~conf.devel

\* C17: interactive_on turns interactive checks and interactive constraints on,
\* interactive_off turns both off; interactive_checks_on/off leave
\* interactive_constraints alone, interactive_constraints_on/off leave
\* interactive_checks alone, and none of the six changes devel.
C17_InteractiveSwitches ==
    /\ hist.op = "interactive_on" =>
          (conf.interactive_checks /\ conf.interactive_constraints)
    /\ hist.op = "interactive_off" =>
          (~conf.interactive_checks /\ ~conf.interactive_constraints)
    /\ hist.op \in {"interactive_checks_on", "interactive_checks_off"} =>
          /\ conf.interactive_constraints = hist.pre_conf.interactive_constraints
          /\ conf.interactive_checks = (hist.op = "interactive_checks_on")
    /\ hist.op \in {"interactive_constraints_on", "interactive_constraints_off"} =>
          /\ conf.interactive_checks = hist.pre_conf.interactive_checks
          /\ conf.interactive_constraints = (hist.op = "interactive_constraints_on")
    /\ hist.op \in {"interactive_on", "interactive_off", "interactive_checks_on",
                    "interactive_checks_off", "interactive_constraints_on",
                    "interactive_constraints_off"} =>
          conf.devel = hist.pre_conf.devel

\* interactive_checks_off was called with checks and constraints on and
\* developer mode on
C17_Witness ==
    /\ hist.op = "interactive_checks_off"
    /\ hist.pre_conf.interactive_checks
    /\ hist.pre_conf.interactive_constraints
    /\ hist.pre_conf.devel

\* the processor count stored outside mpirun: the last one the caller passed,
\* or PHOEBE_MPI_NPROCS, or 4
StoredCount ==
    IF hist.last_n.given THEN hist.last_n.value
    ELSE env_variable_int(proc.env_nprocs, DefaultNprocs)

\* C18: outside mpirun, mpi_on(nprocs=n) leaves MPI enabled with
\* mpi.nprocs = n, and mpi_on() leaves MPI enabled with the stored processor
\* count (the default, or the last n passed), also after an mpi_off.
C18_OnOutsideMpirun ==
    (hist.op = "mpi_on" /\ ~proc.within) =>
        /\ ~hist.raised
        /\ mpi.enabled
        /\ MPI_nprocs(mpi) = IF hist.arg.given THEN hist.arg.value ELSE StoredCount

\* mpi_on() without a count, after mpi_on(n) or mpi.nprocs = n with n other than
\* the default and an mpi_off since
C18_Witness ==
    /\ hist.op = "mpi_on"
    /\ ~proc.within
    /\ ~hist.arg.given
    /\ hist.last_n.given
    /\ hist.last_n.value # DefaultNprocs
    /\ hist.off_since_n
    /\ ~hist.pre_mpi.enabled
    /\ MPI_nprocs(mpi) = hist.last_n.value

\* C19: outside mpirun, after mpi_off MPI is disabled, the mode is "serial mode"
\* and mpi.nprocs reports 1; and mpi.nprocs reports 1 in every state in which
\* MPI is disabled and the process is not within mpirun.
C19_SerialAfterOff ==
    /\ (hist.op = "mpi_off" /\ ~mpi.within_mpirun) =>
          /\ ~mpi.enabled
          /\ MPI_mode(mpi) = "serial mode"
          /\ MPI_nprocs(mpi) = 1
    /\ (~mpi.enabled /\ ~mpi.within_mpirun) => MPI_nprocs(mpi) = 1

\* mpi_off outside mpirun while MPI was enabled with a stored count of 3
C19_Witness ==
    /\ hist.op = "mpi_off"
    /\ ~proc.within
    /\ hist.pre_mpi.enabled
    /\ MPI_nprocs(hist.pre_mpi) = 3

C22_Partner(o, p) ==
    [m  |-> o.mu - p.m,
     x  |-> p.x - o.x,   y  |-> p.y - o.y,   z  |-> p.z - o.z,
     vx |-> p.vx - o.vx, vy |-> p.vy - o.vy, vz |-> p.vz - o.vz]

\* b is the mass-weighted barycentre of the particles ps[k], k in S
C22_IsBarycentre(b, ps, S) ==
    LET wsum(f) == SumOver(S, [k \in S |-> ps[k].m * f[k]]) IN
    /\ b.m = SumOver(S, [k \in S |-> ps[k].m])
    /\ b.m * b.x  = wsum([k \in S |-> ps[k].x])
    /\ b.m * b.y  = wsum([k \in S |-> ps[k].y])
    /\ b.m * b.z  = wsum([k \in S |-> ps[k].z])
    /\ b.m * b.vx = wsum([k \in S |-> ps[k].vx])
    /\ b.m * b.vy = wsum([k \in S |-> ps[k].vy])
    /\ b.m * b.vz = wsum([k \in S |-> ps[k].vz])

C23_ResidualAtTrialTime ==
    (pc = "newton") =>
        LET t_obs == At(times, i) IN
        /\ nt_iter = 0 => nt_p = t_obs
        /\ sim.t = nt_p
        /\ sim.particles = ParticlesAtTime(nt_p)
        /\ nt_q = nt_p - (StateAtTime(j, nt_p).z \div c_AU_d) - t_obs

C23_Witness ==
    /\ pc = "newton"
    /\ nt_iter > 0
    /\ nt_p # At(times, i)
    /\ sim.particles[j].z # 0
    /\ sim.particles[j].x # StateAtTime(j, At(times, i)).x

\* ------------------------------------------- node longitude, Euler path
\* orbit.Omega: the longitude of the ascending node rebound reads off the orbit
Omega(o) == [of |-> "orbit.Omega", orbit |-> o, pi |-> 0]

MinusPi(a) == [a EXCEPT !.pi = @ - 1]

\* mutant: pi is added to the node longitude of the Euler path
EulerElongan_plus(o) == [Omega(o) EXCEPT !.pi = @ + 1]

\* elongan = orbit.Omega - np.pi
EulerElongan(o) == MinusPi(Omega(o))

\* long_an = orbit.Omega - np.pi
EulerLongAn(o) == MinusPi(Omega(o))

Workers == DOMAIN ranks \ {0}

\* the one packet the step has broadcast
Sent(packet) == bcasts' = Append(bcasts, packet)

\* C21: within mpirun with MPI enabled every non-zero rank is in the wait loop
\* after the import and rank 0 never is; a rank in the loop stays in it until a
\* 'release' packet (it goes on with the script) or a 'shutdown' packet (it
\* exits) is broadcast, and handles 'logger' and backend packets in the loop.
C21_WaitLoop ==
    /\ [](/\ hist.op = "import" =>
                \A r \in Workers :
                    ranks[r].pc = (IF env_variable_bool(proc.env_enable, TRUE)
                                   THEN "loop" ELSE "script")
          /\ 0 \in DOMAIN ranks => ranks[0].pc = "script")
    /\ [][\A r \in Workers :
            ranks[r].pc = "loop" =>
                /\ Sent(ReleasePacket) => ranks'[r] = [ranks[r] EXCEPT !.pc = "script"]
                /\ Sent(ShutdownPacket) => ranks'[r] = [ranks[r] EXCEPT !.pc = "exited"]
                /\ Sent(LoggerPacket) => ranks'[r] = [ranks[r] EXCEPT !.loggers = @ + 1]
                /\ (\E b \in BackendAttrs : Sent(BackendPacket(b)))
                      => ranks'[r] = [ranks[r] EXCEPT !.ran = @ + 1]
                /\ (~Sent(ReleasePacket) /\ ~Sent(ShutdownPacket))
                      => ranks'[r].pc = "loop"]_vars

C21_Witness ==
    /\ Cardinality(Workers) = 2
    /\ \A r \in Workers :
          ranks[r].pc = "script" /\ ranks[r].loggers + ranks[r].ran = 1

\* C25 (as claimed): every broadcast rank 0 issues within mpirun finds all
\* non-zero ranks in the wait loop to receive it: no packet is broadcast to a
\* rank that was released, has shut down, or never entered the loop.
C25_BroadcastsAreReceived ==
    \A r \in Workers : ranks[r].missed = 0

ShutdownRan == proc.within /\ proc.rank = 0 /\ ~mpi.within_mpirun

\* C27 (as claimed): after shutdown_workers() has run on rank 0 within mpirun
\* the process is serial for good: enabled and within_mpirun are False and no
\* later call, on() included, brings the MPI object back to an MPI-enabled mode.
C27_SerialAfterShutdown ==
    ShutdownRan => (~mpi.enabled /\ MPI_mode(mpi) = "serial mode")

\* a packet the wait loop has no branch for
Unrecognised(p) ==
    /\ p.worker_command \notin {Supplied("shutdown"), Supplied("release"), Supplied("logger")}
    /\ ~(p.backend.given /\ p.backend.value \in BackendAttrs)

\* C28 (as claimed): a worker in the wait loop that receives a packet that is
\* none of 'shutdown', 'release', 'logger' and names no known backend raises
\* ValueError("could not recognize packet") and runs no backend work for it,
\* also when the packet carries no 'backend' key at all.
C28_UnrecognisedRaisesValueError ==
    [][\A r \in Workers : \A p \in Packets :
          (ranks[r].pc = "loop" /\ Sent(p) /\ Unrecognised(p)) =>
              /\ ranks'[r].pc = "raised"
              /\ ranks'[r].error = "ValueError"
              /\ ranks'[r].ran = ranks[r].ran]_vars

\* C29: dynamics_from_bundle always delegates to dynamics_from_bundle_bs with
\* the times, compute options and return_roche_euler it was given and returns
\* what that returns; it never touches the rebound path, so its result does not
\* depend on gr and no missing-rebound or missing-reboundx error comes from it.
C29_DelegatesToBs ==
    /\ [](bs_call.entry = "dynamics_from_bundle" =>
            /\ pc = "idle" /\ sim = NoSim /\ ~integrated /\ error = "none"
            /\ bs_pc \in {"dynamics_from_bundle", "dynamics_from_bundle_bs",
                          "dynamics_bs", "returned"}
            /\ bs_args.called =>
                  /\ bs_args.times = bs_call.times
                  /\ bs_args.nobjects = bs_call.nobjects
                  /\ bs_args.ltte = bs_call.ltte
                  /\ bs_args.return_roche_euler = bs_call.return_roche_euler
            /\ bs_pc = "returned" =>
                  bs_out = BSResult(WrapperArgs([bs_call EXCEPT
                                                    !.entry = "dynamics_from_bundle_bs"])))
    /\ [][bs_pc = "dynamics_from_bundle" => bs_pc' = "dynamics_from_bundle_bs"]_vars

C29_Witness ==
    /\ bs_call.entry = "dynamics_from_bundle"
    /\ bs_pc = "returned"
    /\ gr /\ ~can_rebound /\ ~can_reboundx
    /\ bs_call.return_roche_euler
    /\ Len(bs_call.times) > 1

\* the instantaneous series dynamics_bs returns with return_roche_euler
InstSeries ==
    {"inst_ds", "inst_Fs", "inst_ethetas", "inst_elongans", "inst_eincls",
     "inst_periods", "inst_smas", "inst_eccs", "inst_per0s", "inst_long_ans",
     "inst_incls", "inst_t0_perpasses"}

\* C30: in dynamics_bs with return_roche_euler, for N bodies and N-1 orbits,
\* bodies 0 and 1 read orbit 0 with total mass masses[0]+masses[1], body k >= 2
\* reads orbit k-1 with total mass sum(masses[0..k]), every index lies within
\* 0..N-2, and each instantaneous series has N entries of len(times) values.
C30_OrbitIndexInRange ==
    (bs_pc = "returned" /\ bs_dyn.return_roche_euler) =>
        LET N       == bs_dyn.nobjects
            n_t     == Len(bs_dyn.times)
            orbit(k) == IF k <= 1 THEN 0 ELSE k - 1
            mass(k) == IF k <= 1 THEN Mass(0) + Mass(1)
                       ELSE SumOver(0..k, [n \in 0..k |-> Mass(n)])
            read(q, k, ti) == [q |-> q, ti |-> ti, k |-> orbit(k)]
        IN  /\ \A s \in InstSeries :
                /\ DOMAIN bs_out[s] = 0..(N - 1)
                /\ \A k \in 0..(N - 1) : DOMAIN bs_out[s][k] = 0..(n_t - 1)
            /\ \A k \in 0..(N - 1) : \A ti \in 0..(n_t - 1) :
                /\ orbit(k) \in 0..(N - 2)
                /\ bs_out.inst_smas[k][ti] = read("kepl_a", k, ti)
                /\ bs_out.inst_eccs[k][ti] = read("kepl_e", k, ti)
                /\ bs_out.inst_incls[k][ti] = read("kepl_in", k, ti)
                /\ bs_out.inst_per0s[k][ti] = read("kepl_o", k, ti)
                /\ bs_out.inst_long_ans[k][ti] = read("kepl_ln", k, ti)
                /\ bs_out.inst_periods[k][ti] =
                      [sma |-> read("kepl_a", k, ti), mass_tot |-> mass(k)]
                /\ bs_out.inst_t0_perpasses[k][ti].mean_anom = read("kepl_ma", k, ti)
                /\ bs_out.inst_t0_perpasses[k][ti].period.mass_tot = mass(k)
                /\ bs_out.inst_ethetas[k][ti] =
                      [per0 |-> read("kepl_o", k, ti), mean_anom |-> read("kepl_ma", k, ti)]
                /\ bs_out.inst_elongans[k][ti] =
                      [kepl_ln |-> read("kepl_ln", k, ti), long_an |-> orbit(k)]
                /\ bs_out.inst_eincls[k][ti] =
                      [kepl_in |-> read("kepl_in", k, ti), incl |-> orbit(k)]

C30_Witness ==
    /\ bs_pc = "returned"
    /\ bs_dyn.return_roche_euler
    /\ bs_dyn.nobjects >= 3
    /\ Len(bs_dyn.times) >= 2
    /\ bs_out.inst_smas[2][1].k = 1
    /\ bs_out.inst_periods[1][0].mass_tot = Mass(0) + Mass(1)

====
